---- MODULE Spec2Model ----
(***************************************************************************)
(* Community-induced section hypergraphs of KaHyPar:                       *)
(*   extractCommunityInducedSectionHypergraph and                          *)
(*   mergeCommunityInducedSectionHypergraphs                               *)
(* (kahypar/datastructure/community_subhypergraph.h).                      *)
(*                                                                         *)
(* Arrays of the program are sequences here; hypernode ids, hyperedge ids  *)
(* and offsets into the incidence array keep the 0-based values of the     *)
(* source, so element i of an array a is a[i + 1] (operator At).           *)
(***************************************************************************)
EXTENDS Integers, Sequences, FiniteSets, TLC

\* ------------------------------------------------------------------ bounds
MaxNodeWeight == 2
MaxEdgeWeight == 2
MaxThreads == 2
MaxContractions == 3

\* ------------------------------------------------------------- array helpers
At(a, i) == a[i + 1]
Put(a, i, x) == [a EXCEPT ![i + 1] = x]
Ids(a) == 0 .. (Len(a) - 1)
IdSeq(n) == [i \in 1 .. n |-> i - 1]
Contains(s, x) == \E i \in 1 .. Len(s) : s[i] = x
IndexOf(s, x) == (CHOOSE i \in 1 .. Len(s) : s[i] = x) - 1

RECURSIVE SumSeq(_)
SumSeq(s) == IF s = <<>> THEN 0 ELSE s[1] + SumSeq(Tail(s))

RECURSIVE Flatten(_)
Flatten(ss) == IF ss = <<>> THEN <<>> ELSE ss[1] \o Flatten(Tail(ss))

RECURSIVE Filter(_, _)
Filter(s, keep) ==
  IF s = <<>> THEN <<>>
  ELSE (IF s[1] \in keep THEN <<s[1]>> ELSE <<>>) \o Filter(Tail(s), keep)

\* first occurrences, in order: what a visited[] bit vector lets through
RECURSIVE Dedup(_)
Dedup(s) ==
  IF s = <<>> THEN <<>>
  ELSE LET r == Dedup(SubSeq(s, 1, Len(s) - 1))
           x == s[Len(s)]
       IN IF Contains(r, x) THEN r ELSE Append(r, x)

RECURSIVE InsertAsc(_, _)
InsertAsc(s, x) ==
  IF s = <<>> THEN <<x>>
  ELSE IF x < s[1] THEN <<x>> \o s ELSE <<s[1]>> \o InsertAsc(Tail(s), x)

RECURSIVE SortAsc(_)
SortAsc(s) == IF s = <<>> THEN <<>> ELSE InsertAsc(SortAsc(Tail(s)), s[1])

\* ------------------------------------------------------------------- hashing
kEdgeHashSeed == 42
Hash(x) == 2 ^ x

RECURSIVE HashSum(_)
HashSum(s) == IF s = <<>> THEN 0 ELSE Hash(s[1]) + HashSum(Tail(s))

\* ------------------------------------------------------------------- inputs
\* Hypergraphs as the loader hands them over: per hyperedge its pin list,
\* per hypernode its community label.
Instances ==
  << [comm |-> <<0, 0, 1, 1>>, nets |-> << <<0, 1, 2>>, <<2, 3>> >>, k |-> 3],
     [comm |-> <<0, 1, 1, 1>>, nets |-> << <<0, 2, 3>>, <<1, 2, 3>> >>, k |-> 2],
     [comm |-> <<0, 0, 1, 1>>, nets |-> << <<0, 1>>, <<0, 2>>, <<0, 3>> >>, k |-> 2],
     [comm |-> <<0, 1, 2>>, nets |-> << <<2, 0, 1>>, <<1, 2>> >>, k |-> 3],
     [comm |-> <<0, 0, 0, 0>>, nets |-> << <<0, 1, 2, 3>> >>, k |-> 1],
     [comm |-> <<0, 0, 1>>, nets |-> << <<0, 2>> >>, k |-> 2],
     [comm |-> <<0, 0, 1, 1>>, nets |-> << <<0, 1, 2, 3>> >>, k |-> 2] >>

\* ------------------------------------------------------------- the hypergraph
Hypernode(incident_nets, weight, valid) ==
  [incidentNets |-> incident_nets, weight |-> weight, valid |-> valid]

Hyperedge(begin, size, weight, hash) ==
  [firstEntry |-> begin, size |-> size, weight |-> weight, valid |-> TRUE, hash |-> hash]

\* index vector of the loader: offset of every hyperedge's first pin
IndexVector(nets) == [e \in 1 .. Len(nets) + 1 |->
                        SumSeq([j \in 1 .. e - 1 |-> Len(nets[j])])]

\* incident nets of every hypernode, in hyperedge order
IncidentNetsOf(nets, hn) ==
  Filter(IdSeq(Len(nets)), {e \in 0 .. Len(nets) - 1 : Contains(At(nets, e), hn)})

\* a freshly constructed hypergraph: all pins active, sentinel hyperedge last
NewHypergraph(nets, node_weights, edge_weights, comm) ==
  [incidence_array |-> Flatten(nets),
   hypernodes |-> [i \in 1 .. Len(node_weights) |->
                     Hypernode(IncidentNetsOf(nets, i - 1), node_weights[i], TRUE)],
   hyperedges |-> [e \in 1 .. Len(nets) + 1 |->
                     IF e <= Len(nets)
                     THEN Hyperedge(IndexVector(nets)[e], Len(nets[e]), edge_weights[e],
                                    kEdgeHashSeed + HashSum(nets[e]))
                     ELSE Hyperedge(IndexVector(nets)[e], 0, 0, kEdgeHashSeed)],
   communities |-> comm,
   num_hypernodes |-> Len(node_weights),
   num_hyperedges |-> Len(nets),
   current_num_hypernodes |-> Len(node_weights),
   current_num_hyperedges |-> Len(nets),
   current_num_pins |-> Len(Flatten(nets))]

EmptyHypergraph ==
  [incidence_array |-> <<>>, hypernodes |-> <<>>, hyperedges |-> <<>>,
   communities |-> <<>>, num_hypernodes |-> 0, num_hyperedges |-> 0,
   current_num_hypernodes |-> 0, current_num_hyperedges |-> 0, current_num_pins |-> 0]

\* accessors of the hypergraph container
firstEntry(h, he) == At(h.hyperedges, he).firstEntry
firstInvalidEntry(h, he) == At(h.hyperedges, he).firstEntry + At(h.hyperedges, he).size
pins(h, he) == SubSeq(h.incidence_array, firstEntry(h, he) + 1, firstInvalidEntry(h, he))
nodes(h) == Filter(IdSeq(h.num_hypernodes),
                   {hn \in 0 .. h.num_hypernodes - 1 : At(h.hypernodes, hn).valid})
edges(h) == Filter(IdSeq(h.num_hyperedges),
                   {he \in 0 .. h.num_hyperedges - 1 : At(h.hyperedges, he).valid})
incidentEdges(h, hn) == At(h.hypernodes, hn).incidentNets
nodeWeight(h, hn) == At(h.hypernodes, hn).weight
edgeWeight(h, he) == At(h.hyperedges, he).weight
communityID(h, hn) == At(h.communities, hn)

\* ---------------------------------------------------------------- extraction
CommunityHyperedge(original_he, incidence_array_start, incidence_array_end) ==
  [original_he |-> original_he,
   incidence_array_start |-> incidence_array_start,
   incidence_array_end |-> incidence_array_end]

\* faulty variant of VisitedEdges: the test of the community id is missing
VisitedEdges_OfEveryNode(h, community) ==
  Dedup(Flatten([i \in 1 .. Len(nodes(h)) |-> incidentEdges(h, nodes(h)[i])]))

\* hyperedges in the order the first loop marks them visited
VisitedEdges(h, community) ==
  Dedup(Flatten([i \in 1 .. Len(nodes(h)) |->
                   IF communityID(h, nodes(h)[i]) = community
                   THEN incidentEdges(h, nodes(h)[i]) ELSE <<>>]))

\* faulty variant of VisitedPins: a hyperedge is walked once per incident
\* hypernode of the community (the visited bit of the hyperedge is ignored)
VisitedPins_PerIncidence(h, community) ==
  Flatten([i \in 1 .. Len(nodes(h)) |->
             IF communityID(h, nodes(h)[i]) = community
             THEN Flatten([k \in 1 .. Len(incidentEdges(h, nodes(h)[i])) |->
                             pins(h, incidentEdges(h, nodes(h)[i])[k])])
             ELSE <<>>])

\* every pin occurrence the first loop passes to addPin, in order
VisitedPins(h, community) ==
  Flatten([i \in 1 .. Len(VisitedEdges(h, community)) |->
             pins(h, VisitedEdges(h, community)[i])])

\* addHypernode: local-to-global mapping in order of first visit
addHypernode(h, community) == Dedup(VisitedPins(h, community))

sortHypernodes(mapping) == SortAsc(mapping)

\* faulty variant of CommunitySize: community_sizes_in_he is not cleared
\* between two hyperedges
CommunitySize_NoClear(h, he, comms) ==
  SumSeq([e \in 1 .. he + 1 |->
            SumSeq([i \in 1 .. Len(pins(h, e - 1)) |->
                      IF communityID(h, pins(h, e - 1)[i]) \in comms
                      THEN nodeWeight(h, pins(h, e - 1)[i]) ELSE 0])])

\* weight accumulated in community_sizes_in_he for the communities selected
CommunitySize(h, he, comms) ==
  SumSeq([i \in 1 .. Len(pins(h, he)) |->
            IF communityID(h, pins(h, he)[i]) \in comms
            THEN nodeWeight(h, pins(h, he)[i]) ELSE 0])

RangeOf(h, he, community) ==
  LET incidence_array_start == CommunitySize(h, he, 0 .. community - 1)
      community_size == CommunitySize(h, he, {community})
  IN CommunityHyperedge(he, incidence_array_start, incidence_array_start + community_size)

\* setupInternalStructure: weights and communities through the mapping,
\* incident nets from the local pin lists, sentinel hyperedge, counters
SetupInternalStructure(h, mapping, local_nets, local_weights) ==
  NewHypergraph(local_nets,
                [i \in 1 .. Len(mapping) |-> nodeWeight(h, mapping[i])],
                local_weights,
                [i \in 1 .. Len(mapping) |-> communityID(h, mapping[i])])

extractCommunityInducedSectionHypergraph(h, community, respect_order_of_hypernodes) ==
  LET visited == VisitedEdges(h, community)
      occurrences == VisitedPins(h, community)
      found == addHypernode(h, community)
      mapping == IF respect_order_of_hypernodes THEN sortHypernodes(found) ELSE found
      kept == Filter(edges(h), {visited[i] : i \in 1 .. Len(visited)})
      local_nets == [e \in 1 .. Len(kept) |->
                       [j \in 1 .. Len(pins(h, kept[e])) |->
                          IndexOf(mapping, pins(h, kept[e])[j])]]
  IN [community_id |-> community,
      num_hn_not_in_community |->
        Cardinality({i \in 1 .. Len(found) : communityID(h, found[i]) # community}),
      num_pins_not_in_community |->
        Cardinality({i \in 1 .. Len(occurrences) :
                       communityID(h, occurrences[i]) # community}),
      subhypergraph_to_hypergraph_hn |-> mapping,
      subhypergraph_to_hypergraph_he |->
        IF Len(mapping) > 0
        THEN [e \in 1 .. Len(kept) |-> RangeOf(h, kept[e], community)]
        ELSE <<>>,
      subhypergraph |->
        IF Len(mapping) > 0
        THEN SetupInternalStructure(h, mapping, local_nets,
                                    [e \in 1 .. Len(kept) |-> edgeWeight(h, kept[e])])
        ELSE EmptyHypergraph]

\* ---------------------------------------------------------------- coarsening
\* What the coarsener does to a community sub-hypergraph between extraction
\* and merge: contractions of two hypernodes of the target community and
\* removal of single-pin and parallel hyperedges.
swap(a, i, j) == [a EXCEPT ![i + 1] = a[j + 1], ![j + 1] = a[i + 1]]

\* contraction (u, v) seen from one hyperedge he incident to v: v goes to
\* the last active slot; if u is a pin of he as well the active size
\* shrinks, otherwise the slot of v is reused for u
ContractInEdge(h, u, v, he) ==
  LET last == firstInvalidEntry(h, he) - 1
      slot_of_v == firstEntry(h, he) + IndexOf(pins(h, he), v)
      moved == swap(h.incidence_array, slot_of_v, last)
  IN IF Contains(pins(h, he), u)
     THEN [h EXCEPT !.incidence_array = moved,
                    !.hyperedges[he + 1].size = @ - 1,
                    !.hyperedges[he + 1].hash = @ - Hash(v),
                    !.current_num_pins = @ - 1]
     ELSE [h EXCEPT !.incidence_array = Put(moved, last, u),
                    !.hyperedges[he + 1].hash = @ - Hash(v) + Hash(u),
                    !.hypernodes[u + 1].incidentNets = Append(@, he)]

RECURSIVE ContractInEdges(_, _, _, _)
ContractInEdges(h, u, v, nets) ==
  IF nets = <<>> THEN h
  ELSE ContractInEdges(IF At(h.hyperedges, nets[1]).valid
                       THEN ContractInEdge(h, u, v, nets[1]) ELSE h,
                       u, v, Tail(nets))

contract(h, u, v) ==
  LET g == ContractInEdges(h, u, v, incidentEdges(h, v))
  IN [g EXCEPT !.hypernodes[u + 1].weight = @ + nodeWeight(h, v),
               !.hypernodes[v + 1].valid = FALSE,
               !.current_num_hypernodes = @ - 1]

removeEdge(h, he) ==
  [h EXCEPT !.hyperedges[he + 1].valid = FALSE,
            !.current_num_hyperedges = @ - 1,
            !.current_num_pins = @ - At(h.hyperedges, he).size]

removeParallelEdge(h, representative, he) ==
  [removeEdge(h, he) EXCEPT !.hyperedges[representative + 1].weight =
                                @ + edgeWeight(h, he)]

PinSet(h, he) == {pins(h, he)[i] : i \in 1 .. Len(pins(h, he))}

\* ------------------------------------------------------------------- state
VARIABLES
  hypergraph,         \* the original hypergraph, mutated in place by merge
  original,           \* the hypergraph as constructed (never changes)
  respect_order,      \* respect_order_of_hypernodes
  num_communities,    \* how many community ids are extracted and merged
  communities,        \* the CommunitySubhypergraphs, index = community id
  history,            \* contraction mementos, global ids, in order of time
  num_threads,        \* pool.size()
  queue,              \* tasks enqueued and not yet taken by a worker
  running,            \* tasks a worker is executing
  contraction_index,  \* the table of phase 2
  pc,                 \* where the calling thread is
  aborted,            \* the process died on an out-of-bounds write
  access,             \* per phase 1 task: locations read and written, ranges filled
  enqueued,           \* per phase: tasks handed to the pool or run inline
  finished,           \* per phase: tasks that ran to their end
  before_phase3       \* the hypergraph as phase 3 found it

vars == <<hypergraph, original, respect_order, num_communities, communities, history,
          num_threads, queue, running, contraction_index, pc, aborted, access,
          enqueued, finished, before_phase3>>

input == <<original, respect_order, num_communities>>
pool == <<queue, running, enqueued, finished>>
ghost == <<access, before_phase3>>

Task(phase, id, start, end) ==
  [phase |-> phase, id |-> id, start |-> start, end |-> end, pos |-> start, visited |-> {}]

NoAccess == [r |-> {}, w |-> {}, fills |-> {}]

Init ==
  /\ \E t \in 1 .. Len(Instances), w \in 1 .. MaxNodeWeight, ew \in 1 .. MaxEdgeWeight :
       /\ hypergraph = NewHypergraph(Instances[t].nets,
                                     [i \in 1 .. Len(Instances[t].comm) |->
                                        IF i = 1 THEN w ELSE 1],
                                     [e \in 1 .. Len(Instances[t].nets) |->
                                        IF e = 1 THEN ew ELSE 1],
                                     Instances[t].comm)
       /\ num_communities = Instances[t].k
  /\ original = hypergraph
  /\ respect_order \in BOOLEAN
  /\ communities = <<>>
  /\ history = <<>>
  /\ num_threads = 1
  /\ queue = <<>>
  /\ running = {}
  /\ contraction_index = <<>>
  /\ pc = "extract"
  /\ aborted = FALSE
  /\ access = [c \in 0 .. num_communities - 1 |-> NoAccess]
  /\ enqueued = [p \in 1 .. 3 |-> {}]
  /\ finished = [p \in 1 .. 3 |-> {}]
  /\ before_phase3 = hypergraph

\* the caller extracts one community after the other
Extract ==
  /\ pc = "extract"
  /\ communities' = Append(communities,
        extractCommunityInducedSectionHypergraph(hypergraph, Len(communities), respect_order))
  /\ pc' = IF Len(communities') = num_communities THEN "coarsen" ELSE "extract"
  /\ UNCHANGED <<hypergraph, input, history, num_threads, pool, contraction_index,
                 aborted, ghost>>

SubNodes(c) == Ids(communities[c + 1].subhypergraph.hypernodes)
SubEdges(c) == 0 .. communities[c + 1].subhypergraph.num_hyperedges - 1

InCommunity(c, hn) ==
  /\ At(communities[c + 1].subhypergraph.hypernodes, hn).valid
  /\ communityID(communities[c + 1].subhypergraph, hn) = c

Contract ==
  /\ pc = "coarsen"
  /\ Len(history) < MaxContractions
  /\ \E c \in 0 .. num_communities - 1 : \E u, v \in SubNodes(c) :
       /\ u # v /\ InCommunity(c, u) /\ InCommunity(c, v)
       /\ communities' = [communities EXCEPT ![c + 1].subhypergraph = contract(@, u, v)]
       /\ history' = Append(history,
             [u |-> At(communities[c + 1].subhypergraph_to_hypergraph_hn, u),
              v |-> At(communities[c + 1].subhypergraph_to_hypergraph_hn, v)])
  /\ UNCHANGED <<hypergraph, input, num_threads, pool, contraction_index, pc,
                 aborted, ghost>>

RemoveSinglePinEdge ==
  /\ pc = "coarsen"
  /\ \E c \in 0 .. num_communities - 1 : \E he \in SubEdges(c) :
       /\ At(communities[c + 1].subhypergraph.hyperedges, he).valid
       /\ At(communities[c + 1].subhypergraph.hyperedges, he).size = 1
       /\ communities' = [communities EXCEPT ![c + 1].subhypergraph = removeEdge(@, he)]
  /\ UNCHANGED <<hypergraph, input, history, num_threads, pool, contraction_index, pc,
                 aborted, ghost>>

RemoveParallelEdge ==
  /\ pc = "coarsen"
  /\ \E c \in 0 .. num_communities - 1 : \E rep, he \in SubEdges(c) :
       /\ rep # he
       /\ At(communities[c + 1].subhypergraph.hyperedges, rep).valid
       /\ At(communities[c + 1].subhypergraph.hyperedges, he).valid
       /\ PinSet(communities[c + 1].subhypergraph, rep) =
            PinSet(communities[c + 1].subhypergraph, he)
       /\ communities' = [communities EXCEPT
                            ![c + 1].subhypergraph = removeParallelEdge(@, rep, he)]
  /\ UNCHANGED <<hypergraph, input, history, num_threads, pool, contraction_index, pc,
                 aborted, ghost>>

\* the caller hands the coarsened communities and a pool to merge
StartMerge ==
  /\ pc = "coarsen"
  /\ pc' = "pre"
  /\ num_threads' \in 1 .. MaxThreads
  /\ UNCHANGED <<hypergraph, input, communities, history, pool, contraction_index,
                 aborted, ghost>>

\* ------------------------------------------------------------------ the pool
\* enqueue appends to the queue; a worker takes the oldest task when one of
\* the pool.size() workers is free; loop_until_empty returns when no task
\* is queued and none is being executed
enqueue(tasks) ==
  /\ queue' = queue \o tasks
  /\ running' = running

PoolIsEmpty == queue = <<>> /\ running = {}

StartTask ==
  /\ ~aborted
  /\ queue # <<>>
  /\ Cardinality(running) < num_threads
  /\ queue' = Tail(queue)
  /\ running' = running \cup {Head(queue)}
  /\ UNCHANGED <<hypergraph, input, communities, history, num_threads, contraction_index,
                 pc, aborted, ghost, enqueued, finished>>

FinishTask ==
  /\ ~aborted
  /\ \E t \in running :
       /\ t.pos >= t.end
       /\ running' = running \ {t}
       /\ finished' = [finished EXCEPT ![t.phase] = @ \cup {t.id}]
  /\ UNCHANGED <<hypergraph, input, communities, history, num_threads, contraction_index,
                 pc, aborted, ghost, queue, enqueued>>

Advance(t, u) == running' = (running \ {t}) \cup {u}

\* -------------------------------------------------------------------- merge
\* faulty variant of PrePhaseCounters: boundary pins are counted once per
\* community
PrePhaseCounters_WithBoundaryPins(h, subs) ==
  [h EXCEPT
     !.current_num_hypernodes =
        SumSeq([c \in 1 .. Len(subs) |->
                  subs[c].subhypergraph.current_num_hypernodes
                    - subs[c].num_hn_not_in_community]),
     !.current_num_pins =
        SumSeq([c \in 1 .. Len(subs) |-> subs[c].subhypergraph.current_num_pins]),
     !.current_num_hyperedges =
        @ - SumSeq([c \in 1 .. Len(subs) |->
                      subs[c].subhypergraph.num_hyperedges
                        - subs[c].subhypergraph.current_num_hyperedges])]

\* PRE-PHASE: the aggregate counters
PrePhaseCounters(h, subs) ==
  [h EXCEPT
     !.current_num_hypernodes =
        SumSeq([c \in 1 .. Len(subs) |->
                  subs[c].subhypergraph.current_num_hypernodes
                    - subs[c].num_hn_not_in_community]),
     !.current_num_pins =
        SumSeq([c \in 1 .. Len(subs) |->
                  subs[c].subhypergraph.current_num_pins
                    - subs[c].num_pins_not_in_community]),
     !.current_num_hyperedges =
        @ - SumSeq([c \in 1 .. Len(subs) |->
                      subs[c].subhypergraph.num_hyperedges
                        - subs[c].subhypergraph.current_num_hyperedges])]

PrePhase ==
  /\ pc = "pre"
  /\ hypergraph' = PrePhaseCounters(hypergraph, communities)
  /\ pc' = "phase1"
  /\ UNCHANGED <<input, communities, history, num_threads, pool, contraction_index,
                 aborted, ghost>>

\* PHASE 1: one task per community
Phase1 ==
  /\ pc = "phase1"
  /\ enqueue([c \in 1 .. Len(communities) |->
                Task(1, c - 1, 0, communities[c].subhypergraph.num_hypernodes)])
  /\ enqueued' = [enqueued EXCEPT ![1] = 0 .. Len(communities) - 1]
  /\ pc' = "barrier1"
  /\ UNCHANGED <<hypergraph, input, communities, history, num_threads, contraction_index,
                 aborted, ghost, finished>>

\* the pins of local hyperedge he that the task of community cs writes back:
\* every pin of the whole local range whose community is the target, mapped
OwnPins(cs, he) ==
  LET sub == cs.subhypergraph
      range == SubSeq(sub.incidence_array, firstEntry(sub, he) + 1, firstEntry(sub, he + 1))
  IN Flatten([i \in 1 .. Len(range) |->
                IF communityID(sub, range[i]) = cs.community_id
                THEN <<At(cs.subhypergraph_to_hypergraph_hn, range[i])>> ELSE <<>>])

\* "Update weight": the comparison that guards setWeight
WeightIsSmaller(h, cs, he, original_he) ==
  edgeWeight(h, he) < edgeWeight(cs.subhypergraph, he)

\* the body of "if ( !visited[he] )" for local hyperedge he; st carries the
\* hypergraph, the locations read and written, and whether a write fell
\* outside the incidence array
WriteBackHyperedge(st, cs, he) ==
  LET sub == cs.subhypergraph
      community_hyperedge == At(cs.subhypergraph_to_hypergraph_he, he)
      original_he == community_hyperedge.original_he
      original_incidence_array_start ==
        firstEntry(st.h, original_he) + community_hyperedge.incidence_array_start
      own == OwnPins(cs, he)
      slots == original_incidence_array_start ..
                 original_incidence_array_start + Len(own) - 1
      size == Len(st.h.incidence_array)
      copied == [j \in 1 .. size |->
                   IF j - 1 \in slots
                   THEN own[j - original_incidence_array_start]
                   ELSE st.h.incidence_array[j]]
      heavier == WeightIsSmaller(st.h, cs, he, original_he)
      disabled == ~At(sub.hyperedges, he).valid
  IN [h |-> [st.h EXCEPT
               !.incidence_array = copied,
               !.hyperedges[original_he + 1].weight =
                  IF heavier THEN edgeWeight(sub, he) ELSE @,
               !.hyperedges[original_he + 1].valid = IF disabled THEN FALSE ELSE @],
      r |-> st.r \cup {<<"weight", he>>},
      w |-> st.w \cup {<<"pin", j>> : j \in slots \cap 0 .. size - 1}
                 \cup (IF heavier THEN {<<"weight", original_he>>} ELSE {})
                 \cup (IF disabled THEN {<<"valid", original_he>>} ELSE {}),
      fills |-> st.fills \cup
                  {[he |-> he, original_he |-> original_he, pins |-> own,
                    first |-> original_incidence_array_start,
                    cursor |-> original_incidence_array_start + Len(own),
                    reserved_end |-> firstEntry(st.h, original_he)
                                       + community_hyperedge.incidence_array_end]},
      visited |-> st.visited \cup {he},
      out_of_bounds |-> st.out_of_bounds \/ \E j \in slots : j >= size]

\* the loop over the incident nets of one local hypernode
RECURSIVE WriteBackIncidentNets(_, _, _)
WriteBackIncidentNets(st, cs, nets) ==
  IF nets = <<>> THEN st
  ELSE WriteBackIncidentNets(IF nets[1] \in st.visited THEN st
                             ELSE WriteBackHyperedge(st, cs, nets[1]),
                             cs, Tail(nets))

\* faulty variant of WriteBackHypernode: the test of the community of the
\* local hypernode is missing
WriteBackHypernode_OfAnyCommunity(st, cs, hn) ==
  LET sub == cs.subhypergraph
      original_hn == At(cs.subhypergraph_to_hypergraph_hn, hn)
      local_nets == At(sub.hypernodes, hn).incidentNets
      incident_nets == [i \in 1 .. Len(local_nets) |->
                          At(cs.subhypergraph_to_hypergraph_he, local_nets[i]).original_he]
      after == WriteBackIncidentNets(st, cs, local_nets)
  IN [after EXCEPT
        !.h.hypernodes[original_hn + 1] =
           Hypernode(incident_nets, nodeWeight(sub, hn), At(sub.hypernodes, hn).valid),
        !.w = @ \cup {<<"hypernode", original_hn>>}]

\* one iteration of the loop over the local hypernodes
WriteBackHypernode(st, cs, hn) ==
  LET sub == cs.subhypergraph
      original_hn == At(cs.subhypergraph_to_hypergraph_hn, hn)
      local_nets == At(sub.hypernodes, hn).incidentNets
      incident_nets == [i \in 1 .. Len(local_nets) |->
                          At(cs.subhypergraph_to_hypergraph_he, local_nets[i]).original_he]
      after == WriteBackIncidentNets(st, cs, local_nets)
  IN IF communityID(sub, hn) # cs.community_id THEN st
     ELSE [after EXCEPT
             !.h.hypernodes[original_hn + 1] =
                Hypernode(incident_nets, nodeWeight(sub, hn), At(sub.hypernodes, hn).valid),
             !.w = @ \cup {<<"hypernode", original_hn>>}]

WriteBackStep ==
  /\ ~aborted
  /\ \E t \in running :
       /\ t.phase = 1 /\ t.pos < t.end
       /\ LET st == WriteBackHypernode(
                      [h |-> hypergraph, r |-> access[t.id].r, w |-> access[t.id].w,
                       fills |-> access[t.id].fills,
                       visited |-> t.visited, out_of_bounds |-> FALSE],
                      communities[t.id + 1], t.pos)
          IN /\ hypergraph' = st.h
             /\ access' = [access EXCEPT ![t.id] = [r |-> st.r, w |-> st.w, fills |-> st.fills]]
             /\ Advance(t, [t EXCEPT !.pos = @ + 1, !.visited = st.visited])
             /\ aborted' \in (IF st.out_of_bounds THEN BOOLEAN ELSE {FALSE})
  /\ UNCHANGED <<input, communities, history, num_threads, contraction_index, pc,
                 queue, enqueued, finished, before_phase3>>

\* faulty variant of Barrier1: the table is created without the barrier
Barrier1_NoLoopUntilEmpty ==
  /\ pc = "barrier1"
  /\ ~aborted
  /\ contraction_index' = [hn \in 1 .. hypergraph.num_hypernodes |-> -1]
  /\ pc' = "phase2"
  /\ UNCHANGED <<hypergraph, input, communities, history, num_threads, pool,
                 aborted, ghost>>

\* Barrier, and the table of phase 2 is created
Barrier1 ==
  /\ pc = "barrier1"
  /\ ~aborted
  /\ PoolIsEmpty
  /\ contraction_index' = [hn \in 1 .. hypergraph.num_hypernodes |-> -1]
  /\ pc' = "phase2"
  /\ UNCHANGED <<hypergraph, input, communities, history, num_threads, pool,
                 aborted, ghost>>

\* the split of [0, n) into one range per worker, the remainder to the last
Ranges(phase, n) ==
  LET step == n \div num_threads
  IN [i \in 1 .. num_threads |->
        Task(phase, i - 1, (i - 1) * step, IF i = num_threads THEN n ELSE i * step)]

RunsInPool(n) == (n \div num_threads) >= 1 /\ num_threads # 1

\* faulty variant of SetContractionIndex: indexes the representative
SetContractionIndex_OfRepresentative(table, i) == Put(table, At(history, i).u, i)

\* PHASE 2: one iteration of construct_contraction_index
SetContractionIndex(table, i) == Put(table, At(history, i).v, i)

RECURSIVE construct_contraction_index(_, _, _)
construct_contraction_index(table, start, end) ==
  IF start >= end THEN table
  ELSE construct_contraction_index(SetContractionIndex(table, start), start + 1, end)

Phase2Enqueue ==
  /\ pc = "phase2"
  /\ RunsInPool(Len(history))
  /\ enqueue(Ranges(2, Len(history)))
  /\ enqueued' = [enqueued EXCEPT ![2] = 0 .. num_threads - 1]
  /\ pc' = "barrier2"
  /\ UNCHANGED <<hypergraph, input, communities, history, num_threads, contraction_index,
                 aborted, ghost, finished>>

Phase2Inline ==
  /\ pc = "phase2"
  /\ ~RunsInPool(Len(history))
  /\ contraction_index' = construct_contraction_index(contraction_index, 0, Len(history))
  /\ enqueued' = [enqueued EXCEPT ![2] = {0}]
  /\ finished' = [finished EXCEPT ![2] = {0}]
  /\ pc' = "barrier2"
  /\ UNCHANGED <<hypergraph, input, communities, history, num_threads, queue, running,
                 aborted, ghost>>

ContractionIndexStep ==
  /\ \E t \in running :
       /\ t.phase = 2 /\ t.pos < t.end
       /\ contraction_index' = SetContractionIndex(contraction_index, t.pos)
       /\ Advance(t, [t EXCEPT !.pos = @ + 1])
  /\ UNCHANGED <<hypergraph, input, communities, history, num_threads, pc, aborted,
                 ghost, queue, enqueued, finished>>

Barrier2 ==
  /\ pc = "barrier2"
  /\ PoolIsEmpty
  /\ pc' = "phase3"
  /\ before_phase3' = hypergraph
  /\ UNCHANGED <<hypergraph, input, communities, history, num_threads, pool,
                 contraction_index, aborted, access>>

\* PHASE 3
\* faulty variant of CompactPins: the slot that received the swapped pin is
\* not looked at again
RECURSIVE CompactPins_NoRecheck(_, _, _)
CompactPins_NoRecheck(h, he, j) ==
  IF j >= firstInvalidEntry(h, he) THEN h
  ELSE LET pin == At(h.incidence_array, j)
       IN IF ~At(h.hypernodes, pin).valid
          THEN CompactPins_NoRecheck([h EXCEPT
                              !.incidence_array = swap(@, j, firstInvalidEntry(h, he) - 1),
                              !.hyperedges[he + 1].size = @ - 1],
                           he, j + 1)
          ELSE CompactPins_NoRecheck([h EXCEPT !.hyperedges[he + 1].hash = @ + Hash(pin)],
                           he, j + 1)

\* size_t arithmetic of the scan position: unsigned, wrapping; the width is
\* narrowed, every index of the model stays far below it
SizeTModulus == 65536
Decrement(j) == (j - 1) % SizeTModulus
Increment(j) == (j + 1) % SizeTModulus

\* the scan of the active prefix: a disabled pin is swapped with the last
\* active pin and the size shrinks (j is decremented and incremented again,
\* so the same slot is looked at once more); an enabled pin enters the hash
RECURSIVE CompactPins(_, _, _)
CompactPins(h, he, j) ==
  IF j >= firstInvalidEntry(h, he) THEN h
  ELSE LET pin == At(h.incidence_array, j)
       IN IF ~At(h.hypernodes, pin).valid
          THEN CompactPins([h EXCEPT
                              !.incidence_array = swap(@, j, firstInvalidEntry(h, he) - 1),
                              !.hyperedges[he + 1].size = @ - 1],
                           he, Increment(Decrement(j)))
          ELSE CompactPins([h EXCEPT !.hyperedges[he + 1].hash = @ + Hash(pin)],
                           he, Increment(j))

\* std::sort with the comparator contraction_index[u] > contraction_index[v]
RECURSIVE InsertByContractionIndex(_, _, _)
InsertByContractionIndex(s, x, table) ==
  IF s = <<>> THEN <<x>>
  ELSE IF At(table, x) > At(table, s[1]) THEN <<x>> \o s
       ELSE <<s[1]>> \o InsertByContractionIndex(Tail(s), x, table)

RECURSIVE SortByContractionIndex(_, _)
SortByContractionIndex(s, table) ==
  IF s = <<>> THEN <<>>
  ELSE InsertByContractionIndex(SortByContractionIndex(Tail(s), table), s[1], table)

SortRemainder(h, he, table) ==
  LET invalid_pins_start == firstInvalidEntry(h, he)
      invalid_pins_end == firstEntry(h, he + 1)
      sorted == SortByContractionIndex(
                  SubSeq(h.incidence_array, invalid_pins_start + 1, invalid_pins_end), table)
  IN [h EXCEPT !.incidence_array =
        SubSeq(@, 1, invalid_pins_start) \o sorted \o SubSeq(@, invalid_pins_end + 1, Len(@))]

\* faulty variant of RestoreDisabled: the hyperedge stays enabled
RestoreDisabled_Never(h, he, isDisabled) == h

\* "if ( isDisabled ) current_he.disable()"
RestoreDisabled(h, he, isDisabled) ==
  IF isDisabled THEN [h EXCEPT !.hyperedges[he + 1].valid = FALSE] ELSE h

\* one iteration of create_contraction_hierarchy
CreateContractionHierarchy(h, he, table) ==
  LET isDisabled == ~At(h.hyperedges, he).valid
      enabled == IF isDisabled THEN [h EXCEPT !.hyperedges[he + 1].valid = TRUE] ELSE h
      seeded == [enabled EXCEPT !.hyperedges[he + 1].hash = kEdgeHashSeed]
      compacted == CompactPins(seeded, he, firstEntry(seeded, he))
  IN SortRemainder(RestoreDisabled(compacted, he, isDisabled), he, table)

RECURSIVE create_contraction_hierarchy(_, _, _, _)
create_contraction_hierarchy(h, start, end, table) ==
  IF start >= end THEN h
  ELSE create_contraction_hierarchy(CreateContractionHierarchy(h, start, table),
                                    start + 1, end, table)

Phase3Enqueue ==
  /\ pc = "phase3"
  /\ RunsInPool(hypergraph.num_hyperedges)
  /\ enqueue(Ranges(3, hypergraph.num_hyperedges))
  /\ enqueued' = [enqueued EXCEPT ![3] = 0 .. num_threads - 1]
  /\ pc' = "barrier3"
  /\ UNCHANGED <<hypergraph, input, communities, history, num_threads, contraction_index,
                 aborted, ghost, finished>>

Phase3Inline ==
  /\ pc = "phase3"
  /\ ~RunsInPool(hypergraph.num_hyperedges)
  /\ hypergraph' = create_contraction_hierarchy(hypergraph, 0, hypergraph.num_hyperedges,
                                                contraction_index)
  /\ enqueued' = [enqueued EXCEPT ![3] = {0}]
  /\ finished' = [finished EXCEPT ![3] = {0}]
  /\ pc' = "barrier3"
  /\ UNCHANGED <<input, communities, history, num_threads, queue, running,
                 contraction_index, aborted, ghost>>

ContractionHierarchyStep ==
  /\ \E t \in running :
       /\ t.phase = 3 /\ t.pos < t.end
       /\ hypergraph' = CreateContractionHierarchy(hypergraph, t.pos, contraction_index)
       /\ Advance(t, [t EXCEPT !.pos = @ + 1])
  /\ UNCHANGED <<input, communities, history, num_threads, contraction_index, pc,
                 aborted, ghost, queue, enqueued, finished>>

\* the last barrier; merge returns
Barrier3 ==
  /\ pc = "barrier3"
  /\ PoolIsEmpty
  /\ pc' = "done"
  /\ UNCHANGED <<hypergraph, input, communities, history, num_threads, pool,
                 contraction_index, aborted, ghost>>

Next ==
  \/ Extract \/ Contract \/ RemoveSinglePinEdge \/ RemoveParallelEdge \/ StartMerge
  \/ StartTask \/ FinishTask
  \/ PrePhase \/ Phase1 \/ WriteBackStep \/ Barrier1
  \/ Phase2Enqueue \/ Phase2Inline \/ ContractionIndexStep \/ Barrier2
  \/ Phase3Enqueue \/ Phase3Inline \/ ContractionHierarchyStep \/ Barrier3

Spec == Init /\ [][Next]_vars

\* the steps of mergeCommunityInducedSectionHypergraphs: the calling thread
\* and the workers of the pool
MergeNext ==
  \/ StartTask \/ FinishTask
  \/ PrePhase \/ Phase1 \/ WriteBackStep \/ Barrier1
  \/ Phase2Enqueue \/ Phase2Inline \/ ContractionIndexStep \/ Barrier2
  \/ Phase3Enqueue \/ Phase3Inline \/ ContractionHierarchyStep \/ Barrier3

\* the calling thread and the workers are scheduled fairly
FairSpec == Spec /\ WF_vars(MergeNext)

\* ================================================================== claims
CommunityIds == 0 .. num_communities - 1
OriginalEdges == 0 .. original.num_hyperedges - 1
MergeReturned == pc = "done"
AfterPrePhase == pc \in {"phase1", "barrier1", "phase2", "barrier2", "phase3",
                         "barrier3", "done"}
AllExtracted == Len(communities) = num_communities

LocalEdges(c) == Ids(communities[c + 1].subhypergraph_to_hypergraph_he)
LocalNodes(c) == Ids(communities[c + 1].subhypergraph_to_hypergraph_hn)
RangeIn(c, he) == At(communities[c + 1].subhypergraph_to_hypergraph_he, he)
Slots(ch) == ch.incidence_array_start .. ch.incidence_array_end - 1

\* the CommunityHyperedges issued for original hyperedge e, with the community
Issued(e) ==
  UNION {{<<c, RangeIn(c, he)>> : he \in {x \in LocalEdges(c) : RangeIn(c, x).original_he = e}} :
           c \in CommunityIds}

\* the communities as extraction returned them: no coarsening took place
NoCoarsening ==
  /\ history = <<>>
  /\ communities = [c \in 1 .. num_communities |->
                      extractCommunityInducedSectionHypergraph(original, c - 1, respect_order)]

Elements(s) == {s[i] : i \in 1 .. Len(s)}
Reserved(h, he) == firstEntry(h, he) .. firstEntry(h, he + 1) - 1
Remainder(h, he) == firstInvalidEntry(h, he) .. firstEntry(h, he + 1) - 1
IsValid(h, hn) == At(h.hypernodes, hn).valid
UnitNodeWeights == \A hn \in Ids(original.hypernodes) : nodeWeight(original, hn) = 1

\* C1: for every original hyperedge, the ranges issued to the communities
\* that have a pin in it are pairwise disjoint and their union is exactly
\* [0, number of active pins of the hyperedge).
C1_RangesPartitionActivePins ==
  AllExtracted =>
    \A e \in OriginalEdges :
      /\ \A x, y \in Issued(e) : x[1] # y[1] => Slots(x[2]) \cap Slots(y[2]) = {}
      /\ UNION {Slots(x[2]) : x \in Issued(e)} = 0 .. At(original.hyperedges, e).size - 1

\* with every hypernode weight equal to 1 the ranges do partition the pins
C1_UnitWeights == UnitNodeWeights => C1_RangesPartitionActivePins

\* C2: extracting every community, contracting nothing and merging with an
\* empty history leaves hypernode weights, enabled flags and incident-edge
\* sets, hyperedge weights, enabled flags, active sizes and active pin sets
\* as they were before extraction.
C2_RoundTrip ==
  (MergeReturned /\ NoCoarsening) =>
    /\ \A hn \in Ids(original.hypernodes) :
         /\ nodeWeight(hypergraph, hn) = nodeWeight(original, hn)
         /\ IsValid(hypergraph, hn) = IsValid(original, hn)
         /\ Elements(incidentEdges(hypergraph, hn)) = Elements(incidentEdges(original, hn))
    /\ \A he \in OriginalEdges :
         /\ edgeWeight(hypergraph, he) = edgeWeight(original, he)
         /\ At(hypergraph.hyperedges, he).valid = At(original.hyperedges, he).valid
         /\ At(hypergraph.hyperedges, he).size = At(original.hyperedges, he).size
         /\ PinSet(hypergraph, he) = PinSet(original, he)

\* with every hypernode weight equal to 1 the round trip is the identity
C2_UnitWeights == UnitNodeWeights => C2_RoundTrip

\* C3: no location of the original hypergraph is written by the phase 1
\* task of one community and read or written by the task of another one.
C3_Phase1RaceFree ==
  \A c, d \in CommunityIds :
    c # d => access[c].w \cap (access[d].r \cup access[d].w) = {}

\* without coarsening and with unit hypernode weights the tasks do not meet
C3_UnitWeightsNoCoarsening ==
  (UnitNodeWeights /\ NoCoarsening) => C3_Phase1RaceFree

InPool == running \cup Elements(queue)

\* C4: no phase 2 step is enqueued, run inline or executed before every
\* phase 1 task has finished, no phase 3 step before every phase 2 step has
\* finished, and merge returns only after every phase 3 step has finished.
C4_PhaseOrdering ==
  /\ (enqueued[2] # {} \/ \E t \in InPool : t.phase = 2) =>
       (enqueued[1] = CommunityIds /\ finished[1] = CommunityIds)
  /\ (enqueued[3] # {} \/ \E t \in InPool : t.phase = 3) =>
       (enqueued[2] # {} /\ finished[2] = enqueued[2])
  /\ MergeReturned => (enqueued[3] # {} /\ finished[3] = enqueued[3])

C4_Witness ==
  MergeReturned /\ enqueued[2] = {0, 1} /\ enqueued[3] = {0, 1} /\ num_communities = 3

Absorbed == {history[i].v : i \in 1 .. Len(history)}
Phase2Ended == pc \in {"phase3", "barrier3", "done"}

\* C5: when phase 2 has ended, contraction_index[history[i].v] = i for every
\* position i of the history and every hypernode that was never absorbed
\* still has -1.
C5_ContractionIndexBijection ==
  Phase2Ended =>
    /\ \A i \in Ids(history) : At(contraction_index, At(history, i).v) = i
    /\ \A hn \in Ids(original.hypernodes) :
         hn \notin Absorbed => At(contraction_index, hn) = -1

\* three mementos split over two workers: ranges [0, 1) and [1, 3)
C5_Witness ==
  pc = "phase3" /\ Len(history) = 3 /\ num_threads = 2 /\ finished[2] = {0, 1}

\* C6: when merge returns, the contraction indices of the pins stored in
\* [firstInvalidEntry(he), firstEntry(he + 1)) are strictly decreasing.
C6_RemainderStrictlyDecreasing ==
  MergeReturned =>
    \A he \in OriginalEdges : \A i, j \in Remainder(hypergraph, he) :
      i < j => At(contraction_index, At(hypergraph.incidence_array, i)) >
                 At(contraction_index, At(hypergraph.incidence_array, j))

\* with every hypernode weight equal to 1 the remainder is strictly decreasing
C6_UnitWeights == UnitNodeWeights => C6_RemainderStrictlyDecreasing

\* C7: after phase 3 every pin in the active prefix of a hyperedge is an
\* enabled hypernode, every disabled pin that phase 3 found in the active
\* prefix lies in the remainder of the hyperedge, and the active size is
\* the number of enabled pins of the hyperedge.
C7_PrefixEnabledRemainderDisabled ==
  MergeReturned =>
    \A he \in OriginalEdges :
      /\ \A j \in firstEntry(hypergraph, he) .. firstInvalidEntry(hypergraph, he) - 1 :
           IsValid(hypergraph, At(hypergraph.incidence_array, j))
      /\ \A pin \in PinSet(before_phase3, he) :
           ~IsValid(hypergraph, pin) =>
             \E j \in Remainder(hypergraph, he) : At(hypergraph.incidence_array, j) = pin
      /\ At(hypergraph.hyperedges, he).size =
           Cardinality({j \in Reserved(hypergraph, he) :
                          IsValid(hypergraph, At(hypergraph.incidence_array, j))})

\* a disabled hyperedge that holds two disabled pins and an enabled one
C7_Witness ==
  /\ MergeReturned
  /\ \E he \in OriginalEdges :
       /\ ~At(hypergraph.hyperedges, he).valid
       /\ Cardinality(Remainder(hypergraph, he)) >= 2
  /\ \E he \in OriginalEdges :
       /\ Cardinality(Remainder(hypergraph, he)) >= 2
       /\ At(hypergraph.hyperedges, he).size >= 1

\* C8: from the pre-phase on and until merge returns, currentNumNodes and
\* currentNumPins are the sums over the communities of the sub-hypergraph's
\* counter minus the boundary counter, and currentNumEdges is its value
\* before merge minus the hyperedges removed in the communities.
C8_AggregateCounters ==
  AfterPrePhase =>
    /\ hypergraph.current_num_hypernodes =
         SumSeq([c \in 1 .. num_communities |->
                   communities[c].subhypergraph.current_num_hypernodes
                     - communities[c].num_hn_not_in_community])
    /\ hypergraph.current_num_pins =
         SumSeq([c \in 1 .. num_communities |->
                   communities[c].subhypergraph.current_num_pins
                     - communities[c].num_pins_not_in_community])
    /\ hypergraph.current_num_hyperedges =
         original.current_num_hyperedges
           - SumSeq([c \in 1 .. num_communities |->
                       communities[c].subhypergraph.num_hyperedges
                         - communities[c].subhypergraph.current_num_hyperedges])

C8_Witness ==
  /\ MergeReturned /\ history # <<>>
  /\ hypergraph.current_num_hyperedges < original.current_num_hyperedges
  /\ \E c \in CommunityIds : communities[c + 1].num_pins_not_in_community > 0

DisabledInCommunity(e) ==
  \E c \in CommunityIds : \E he \in LocalEdges(c) :
    /\ RangeIn(c, he).original_he = e
    /\ ~At(communities[c + 1].subhypergraph.hyperedges, he).valid

\* C9: an original hyperedge whose local hyperedge is disabled in the
\* coarsened sub-hypergraph of some community is disabled when merge returns.
C9_DisablePropagation ==
  MergeReturned =>
    \A e \in OriginalEdges : DisabledInCommunity(e) => ~At(hypergraph.hyperedges, e).valid

C9_Witness ==
  MergeReturned /\ \E e \in OriginalEdges :
    DisabledInCommunity(e) /\ At(before_phase3.hyperedges, e).size > 1

\* C10: when merge returns the weight of every original hyperedge is the
\* maximum of its weight before merge and of the coarsened weights of the
\* local hyperedges mapped to it.
C10_MaxCombine ==
  MergeReturned =>
    \A e \in OriginalEdges :
      /\ edgeWeight(hypergraph, e) >= edgeWeight(original, e)
      /\ \A c \in CommunityIds : \A he \in LocalEdges(c) :
           RangeIn(c, he).original_he = e =>
             edgeWeight(hypergraph, e) >= edgeWeight(communities[c + 1].subhypergraph, he)
      /\ \/ edgeWeight(hypergraph, e) = edgeWeight(original, e)
         \/ \E c \in CommunityIds : \E he \in LocalEdges(c) :
              /\ RangeIn(c, he).original_he = e
              /\ edgeWeight(hypergraph, e) = edgeWeight(communities[c + 1].subhypergraph, he)

IsEmptyCommunity(c) == \A hn \in Ids(original.hypernodes) : communityID(original, hn) # c
Extracted(c) == c + 1 <= Len(communities)

\* C11: for a community id that no hypernode carries, extraction returns no
\* hypernodes, no hyperedges, empty mappings and boundary counters 0; its
\* phase 1 task reads and writes nothing of the hypergraph and its terms in
\* the sums of the pre-phase are 0.
C11_EmptyCommunity ==
  \A c \in CommunityIds :
    (IsEmptyCommunity(c) /\ Extracted(c)) =>
      LET cs == communities[c + 1]
      IN /\ cs.subhypergraph.num_hypernodes = 0
         /\ cs.subhypergraph.num_hyperedges = 0
         /\ cs.subhypergraph.incidence_array = <<>>
         /\ cs.subhypergraph_to_hypergraph_hn = <<>>
         /\ cs.subhypergraph_to_hypergraph_he = <<>>
         /\ cs.num_hn_not_in_community = 0
         /\ cs.num_pins_not_in_community = 0
         /\ access[c] = NoAccess
         /\ cs.subhypergraph.current_num_hypernodes - cs.num_hn_not_in_community = 0
         /\ cs.subhypergraph.current_num_pins - cs.num_pins_not_in_community = 0
         /\ cs.subhypergraph.num_hyperedges - cs.subhypergraph.current_num_hyperedges = 0

\* merge has returned and the task of an empty community ran to its end
C11_Witness ==
  MergeReturned /\ \E c \in CommunityIds : IsEmptyCommunity(c) /\ c \in finished[1]

Fresh(c) ==
  /\ Extracted(c)
  /\ communities[c + 1] = extractCommunityInducedSectionHypergraph(original, c, respect_order)
EdgesOf(c) ==
  {he \in OriginalEdges : \E pin \in PinSet(original, he) : communityID(original, pin) = c}
Neighbours(c) ==
  {hn \in Ids(original.hypernodes) :
     communityID(original, hn) # c /\ \E he \in EdgesOf(c) : hn \in PinSet(original, he)}
Members(c) == {hn \in Ids(original.hypernodes) : communityID(original, hn) = c}
Connected(c) == {hn \in Members(c) : incidentEdges(original, hn) # <<>>}

\* the sub-hypergraph extracted for community c has node set VC united with
\* the neighbours, each hypernode once, and as local hyperedges the
\* hyperedges incident to a node of c, each once, with all their pins
Closure(c, VC) ==
  LET cs == communities[c + 1]
      hns == cs.subhypergraph_to_hypergraph_hn
      hes == cs.subhypergraph_to_hypergraph_he
  IN /\ Elements(hns) = VC \cup Neighbours(c)
     /\ Cardinality(Elements(hns)) = Len(hns)
     /\ {hes[i].original_he : i \in 1 .. Len(hes)} = EdgesOf(c)
     /\ Cardinality(EdgesOf(c)) = Len(hes)
     /\ \A he \in Ids(hes) :
          [j \in 1 .. Len(pins(cs.subhypergraph, he)) |->
             At(hns, pins(cs.subhypergraph, he)[j])] = pins(original, At(hes, he).original_he)

\* C12: the sub-hypergraph extracted for community C has as node set every
\* hypernode of C, whatever its degree, united with every hypernode of
\* another community that shares a hyperedge with a node of C, each once, and
\* as hyperedges exactly the hyperedges incident to a node of C, each once
\* and with all their pins.
C12_ExtractionClosure == \A c \in CommunityIds : Fresh(c) => Closure(c, Members(c))

\* the same with V(C) restricted to the hypernodes of C that have an
\* incident hyperedge
C12_ClosureOfConnected == \A c \in CommunityIds : Fresh(c) => Closure(c, Connected(c))

RECURSIVE SumOver(_, _)
SumOver(S, f) ==
  IF S = {} THEN 0
  ELSE LET x == CHOOSE y \in S : TRUE IN f[x] + SumOver(S \ {x}, f)

\* summed hypernode weight of the pin occurrences of original hyperedge e
\* whose community is in comms
PinWeight(e, comms) ==
  LET slots == firstEntry(original, e) .. firstInvalidEntry(original, e) - 1
  IN SumOver({j \in slots : communityID(original, At(original.incidence_array, j)) \in comms},
             [j \in slots |-> nodeWeight(original, At(original.incidence_array, j))])

BoundarySlots(c) ==
  {j \in Ids(original.incidence_array) :
     /\ \E e \in EdgesOf(c) : j \in firstEntry(original, e) .. firstInvalidEntry(original, e) - 1
     /\ communityID(original, At(original.incidence_array, j)) # c}

\* C14: after extraction for community C, num_hn_not_in_community is the
\* number of distinct hypernodes of the local-to-global mapping whose
\* community is not C, and num_pins_not_in_community is the number of pin
\* occurrences of another community in the hyperedges incident to a node of
\* C, every hyperedge counted once.
C14_BoundaryAccounting ==
  \A c \in CommunityIds : Extracted(c) =>
    /\ communities[c + 1].num_hn_not_in_community =
         Cardinality({hn \in Elements(communities[c + 1].subhypergraph_to_hypergraph_hn) :
                        communityID(original, hn) # c})
    /\ communities[c + 1].num_pins_not_in_community = Cardinality(BoundarySlots(c))

\* a boundary hypernode that occurs in two hyperedges of the community
C14_Witness ==
  \E c \in CommunityIds :
    /\ Extracted(c)
    /\ communities[c + 1].num_hn_not_in_community >= 1
    /\ communities[c + 1].num_pins_not_in_community >
         communities[c + 1].num_hn_not_in_community
    /\ \E hn \in Members(c) : Len(incidentEdges(original, hn)) >= 2

\* the slots of the original incidence array reserved for community c in
\* its local hyperedge he
ReservedFor(c, he) ==
  LET ch == RangeIn(c, he)
  IN firstEntry(original, ch.original_he) + ch.incidence_array_start ..
       firstEntry(original, ch.original_he) + ch.incidence_array_end - 1

\* the pins of local hyperedge he, over its whole local range, that belong
\* to community c, as original hypernodes and in local order
LocalPinsOf(c, he) ==
  LET cs == communities[c + 1]
      sub == cs.subhypergraph
      own == {j \in firstEntry(sub, he) .. firstEntry(sub, he + 1) - 1 :
                communityID(sub, At(sub.incidence_array, j)) = c}
  IN [k \in 1 .. Cardinality(own) |->
        At(cs.subhypergraph_to_hypergraph_hn,
           At(sub.incidence_array,
              CHOOSE j \in own : Cardinality({i \in own : i < j}) = k - 1))]

\* C15: for every local hyperedge a phase 1 task processes, the pins written
\* are the local pins of the hyperedge that belong to the community, the
\* first one at original.firstEntry + incidence_array_start, the write
\* cursor ends at original.firstEntry + incidence_array_end, and no slot
\* outside the reserved range is written.
C15_ExactFill ==
  \A c \in CommunityIds : \A f \in access[c].fills :
    /\ f.pins = LocalPinsOf(c, f.he)
    /\ f.first = firstEntry(original, f.original_he) + RangeIn(c, f.he).incidence_array_start
    /\ f.cursor = firstEntry(original, f.original_he) + RangeIn(c, f.he).incidence_array_end
    /\ f.first .. f.cursor - 1 = ReservedFor(c, f.he)
    /\ ~aborted

\* with every hypernode weight equal to 1 every reserved range is filled
\* exactly, also after contractions
C15_UnitWeights == UnitNodeWeights => C15_ExactFill

Phase1Ended == pc \in {"phase2", "barrier2", "phase3", "barrier3", "done"}

\* C16: after phase 1 the original hypernode of every local hypernode of the
\* target community has the coarsened weight, is enabled exactly when the
\* local hypernode is, and has as incident hyperedges the original_he of the
\* local incident hyperedges in the same order; no task writes the record
\* of a hypernode of another community.
C16_HypernodeWriteback ==
  /\ Phase1Ended =>
       \A c \in CommunityIds : \A hn \in LocalNodes(c) :
         LET cs == communities[c + 1]
             sub == cs.subhypergraph
             written == At(hypergraph.hypernodes, At(cs.subhypergraph_to_hypergraph_hn, hn))
         IN communityID(sub, hn) = c =>
              /\ written.weight = nodeWeight(sub, hn)
              /\ written.valid = At(sub.hypernodes, hn).valid
              /\ Len(written.incidentNets) = Len(incidentEdges(sub, hn))
              /\ \A i \in 1 .. Len(written.incidentNets) :
                   written.incidentNets[i] = RangeIn(c, incidentEdges(sub, hn)[i]).original_he
  /\ \A c \in CommunityIds : \A x \in Ids(original.hypernodes) :
       <<"hypernode", x>> \in access[c].w => communityID(original, x) = c

\* a representative that gained an incident hyperedge and weight by a
\* contraction in its community, next to a community that has boundary nodes
C16_Witness ==
  /\ MergeReturned
  /\ \E hn \in Ids(original.hypernodes) :
       /\ Len(incidentEdges(hypergraph, hn)) > Len(incidentEdges(original, hn))
       /\ nodeWeight(hypergraph, hn) > nodeWeight(original, hn)
  /\ \E hn \in Ids(original.hypernodes) : ~IsValid(hypergraph, hn)
  /\ \E c \in CommunityIds : communities[c + 1].num_hn_not_in_community > 0

\* the enabled hypernodes stored in the range of hyperedge he
EnabledPins(h, he) ==
  {pin \in {At(h.incidence_array, j) : j \in Reserved(h, he)} : IsValid(h, pin)}

\* C17: when phase 3 has ended the hash of every hyperedge, disabled ones
\* included, is kEdgeHashSeed plus the sum of hash(pin) over the enabled
\* pins of the hyperedge, each counted once.
C17_EdgeHash ==
  MergeReturned =>
    \A he \in OriginalEdges :
      At(hypergraph.hyperedges, he).hash =
        kEdgeHashSeed + SumOver(EnabledPins(hypergraph, he),
                                [pin \in EnabledPins(hypergraph, he) |-> Hash(pin)])

\* with every hypernode weight equal to 1 the hash is the sum over the
\* enabled pins
C17_UnitWeights == UnitNodeWeights => C17_EdgeHash

ActivePrefix(h, he) == firstEntry(h, he) .. firstInvalidEntry(h, he) - 1
PinAt(h, j) == At(h.incidence_array, j)

\* C18: for every hyperedge and any two enabled pins p, q with p stored
\* before q in the active prefix before phase 3, p is stored before q in the
\* active prefix after phase 3.
C18_StableCompaction ==
  MergeReturned =>
    \A he \in OriginalEdges : \A i, j \in ActivePrefix(before_phase3, he) :
      (/\ i < j
       /\ IsValid(hypergraph, PinAt(before_phase3, i))
       /\ IsValid(hypergraph, PinAt(before_phase3, j))
       /\ PinAt(before_phase3, i) # PinAt(before_phase3, j)) =>
        \E k, l \in ActivePrefix(hypergraph, he) :
          /\ k < l
          /\ PinAt(hypergraph, k) = PinAt(before_phase3, i)
          /\ PinAt(hypergraph, l) = PinAt(before_phase3, j)

\* C18, amended: the active prefix after phase 3 holds exactly the enabled
\* pins that the active prefix held before phase 3, each as often as before,
\* and the pins stored before the first disabled pin keep their slots; a pin
\* swapped in from the back may overtake the pins it jumped over.
C18_PrefixKeepsEnabledPins ==
  MergeReturned =>
    \A he \in OriginalEdges :
      /\ \A hn \in Ids(original.hypernodes) :
           Cardinality({j \in ActivePrefix(hypergraph, he) : PinAt(hypergraph, j) = hn}) =
             IF IsValid(hypergraph, hn)
             THEN Cardinality({j \in ActivePrefix(before_phase3, he) :
                                 PinAt(before_phase3, j) = hn})
             ELSE 0
      /\ \A j \in ActivePrefix(before_phase3, he) :
           (\A i \in firstEntry(before_phase3, he) .. j :
              IsValid(hypergraph, PinAt(before_phase3, i))) =>
             PinAt(hypergraph, j) = PinAt(before_phase3, j)

\* a disabled pin was found in front of two enabled pins
C18_Witness ==
  /\ MergeReturned
  /\ \E he \in OriginalEdges : \E i, j, k \in ActivePrefix(before_phase3, he) :
       /\ i < j /\ j < k
       /\ ~IsValid(hypergraph, PinAt(before_phase3, i))
       /\ IsValid(hypergraph, PinAt(before_phase3, j))
       /\ IsValid(hypergraph, PinAt(before_phase3, k))
       /\ PinAt(before_phase3, j) # PinAt(before_phase3, k)

\* the positions of the calling thread inside merge, last first
Stages == <<"barrier3", "phase3", "barrier2", "phase2", "barrier1", "phase1", "pre">>

InMerge == \E i \in 1 .. Len(Stages) : Stages[i] = pc

StagesLeft == IF InMerge THEN CHOOSE i \in 1 .. Len(Stages) : Stages[i] = pc ELSE 0

\* the steps the pool still has to take: one to start a queued task, one
\* per remaining iteration, one to finish
RECURSIVE TaskStepsLeft(_)
TaskStepsLeft(T) ==
  IF T = {} THEN 0
  ELSE LET t == CHOOSE x \in T : TRUE
       IN (IF t.end > t.pos THEN t.end - t.pos ELSE 0) + 1 + TaskStepsLeft(T \ {t})

PoolStepsLeft == Len(queue) + TaskStepsLeft(Elements(queue)) + TaskStepsLeft(running)

\* a worker can run the next iteration of a task of the phase; the iteration
\* is a total function of the state, so the guard alone decides
CanIterate(phase) == \E t \in running : t.phase = phase /\ t.pos < t.end

\* some step of merge can be taken: by the calling thread, by the pool, or by
\* a worker inside a task
MergeCanStep ==
  \/ ENABLED (StartTask \/ FinishTask \/ PrePhase \/ Phase1 \/ Barrier1)
  \/ ENABLED (Phase2Enqueue \/ Phase2Inline \/ ContractionIndexStep \/ Barrier2)
  \/ ENABLED (Phase3Enqueue \/ Barrier3)
  \/ ~aborted /\ CanIterate(1)
  \/ CanIterate(3)
  \/ pc = "phase3" /\ ~RunsInPool(hypergraph.num_hyperedges)

C19_UnitWeights == (InMerge /\ UnitNodeWeights) => MergeCanStep

\* every step of merge brings the return closer: the calling thread moves to
\* its next position, or the pool has one step less to take
C19_EveryStepProgresses ==
  [][MergeNext =>
       \/ StagesLeft' < StagesLeft
       \/ StagesLeft' = StagesLeft /\ PoolStepsLeft' < PoolStepsLeft]_vars

\* the process died in phase 1: no step of merge is possible any more
C19_Stuck == aborted /\ InMerge /\ ~MergeCanStep

\* phase 1 run by one worker: the task of community c, hypernode after
\* hypernode
RECURSIVE SequentialWriteBack(_, _, _)
SequentialWriteBack(st, cs, hn) ==
  IF hn >= cs.subhypergraph.num_hypernodes THEN st
  ELSE SequentialWriteBack(WriteBackHypernode(st, cs, hn), cs, hn + 1)

\* the tasks of phase 1 one after the other, in the order of the communities
RECURSIVE SequentialPhase1(_, _)
SequentialPhase1(h, c) ==
  IF c > Len(communities) THEN h
  ELSE SequentialPhase1(
         SequentialWriteBack([h |-> h, r |-> {}, w |-> {}, fills |-> {},
                              visited |-> {}, out_of_bounds |-> FALSE],
                             communities[c], 0).h,
         c + 1)

\* merge of the same inputs run by a single thread, nothing interleaved
SequentialMerge ==
  LET counted == PrePhaseCounters(original, communities)
      written == SequentialPhase1(counted, 1)
      table == construct_contraction_index(
                 [hn \in 1 .. written.num_hypernodes |-> -1], 0, Len(history))
  IN create_contraction_hierarchy(written, 0, written.num_hyperedges, table)

\* C20: for fixed inputs the hypergraph when merge returns (pins, hypernode
\* records, hyperedge weights, enabled flags, sizes, hashes, counters) is the
\* same for every interleaving of the tasks and for every worker count: it
\* is the hypergraph a single thread produces.
C20_Determinism == MergeReturned => hypergraph = SequentialMerge

\* the same with every hypernode weight equal to 1
C20_UnitWeights == (MergeReturned /\ UnitNodeWeights) => hypergraph = SequentialMerge

MergeCalled == pc = "pre"

\* the hypergraph is not touched between extraction and the call of merge
C20_InputIsOriginal == MergeCalled => hypergraph = original

\* how often hypernode p is stored in the reserved range of he
Occurrences(h, he, p) == Cardinality({j \in Reserved(h, he) : PinAt(h, j) = p})

SameEdgeFrame(g, h, he) ==
  /\ \A p \in 0 .. h.num_hypernodes - 1 : Occurrences(g, he, p) = Occurrences(h, he, p)
  /\ firstEntry(g, he) = firstEntry(h, he)
  /\ edgeWeight(g, he) = edgeWeight(h, he)

\* C21: phase 3 only permutes the pins inside the reserved range of each
\* hyperedge: the multiset of pins of the range and firstEntry are as before
\* phase 3, no hypernode record and no hyperedge weight is modified, and
\* when phase 3 is over every hyperedge has the enabled flag it had before.
C21_FrameOfPhase3 ==
  Phase2Ended =>
    /\ \A he \in OriginalEdges : SameEdgeFrame(before_phase3, hypergraph, he)
    /\ firstEntry(hypergraph, hypergraph.num_hyperedges)
         = firstEntry(before_phase3, hypergraph.num_hyperedges)
    /\ Len(hypergraph.incidence_array) = Len(before_phase3.incidence_array)
    /\ hypergraph.hypernodes = before_phase3.hypernodes
    /\ MergeReturned =>
         \A he \in OriginalEdges :
           At(hypergraph.hyperedges, he).valid = At(before_phase3.hyperedges, he).valid

\* phase 3 has moved pins, and a disabled hyperedge went through it
C21_Witness ==
  /\ MergeReturned
  /\ hypergraph.incidence_array # before_phase3.incidence_array
  /\ \E he \in OriginalEdges :
       /\ ~At(before_phase3.hyperedges, he).valid
       /\ \E j \in Reserved(hypergraph, he) : PinAt(hypergraph, j) # PinAt(before_phase3, j)

EnabledNodes(h) == {hn \in 0 .. h.num_hypernodes - 1 : IsValid(h, hn)}
EnabledEdges(h) == {he \in 0 .. h.num_hyperedges - 1 : At(h.hyperedges, he).valid}
ActiveSizes(h) == [he \in EnabledEdges(h) |-> At(h.hyperedges, he).size]

\* the counters of h are the counts of its state
CountersMatch(h) ==
  /\ h.current_num_hypernodes = Cardinality(EnabledNodes(h))
  /\ h.current_num_hyperedges = Cardinality(EnabledEdges(h))
  /\ h.current_num_pins = SumOver(EnabledEdges(h), ActiveSizes(h))

\* every hypernode belongs to one of the merged communities
EveryNodeInACommunity ==
  \A hn \in Ids(original.hypernodes) : communityID(original, hn) \in CommunityIds

\* contractions happened only between hypernodes of the same community
ContractionsInsideCommunities ==
  \A i \in 1 .. Len(history) :
    communityID(original, history[i].u) = communityID(original, history[i].v)

CoherentInputs ==
  CountersMatch(original) /\ EveryNodeInACommunity /\ ContractionsInsideCommunities

\* C22: if the counters matched the state before extraction, every hypernode
\* is in one of the merged communities and contractions stayed inside the
\* communities, then when merge returns currentNumNodes, currentNumEdges
\* and currentNumPins are the number of enabled hypernodes, of enabled
\* hyperedges and the summed active sizes of the enabled hyperedges.
C22_CounterCoherence == (MergeReturned /\ CoherentInputs) => CountersMatch(hypergraph)

NoIsolatedNodes ==
  \A hn \in Ids(original.hypernodes) : incidentEdges(original, hn) # <<>>

\* the counters are coherent when merge returns if moreover every hypernode
\* has an incident hyperedge and every hypernode weight is 1
C22_ConnectedUnitWeights ==
  (MergeReturned /\ CoherentInputs /\ NoIsolatedNodes /\ UnitNodeWeights)
    => CountersMatch(hypergraph)

\* the inputs the model hands to merge satisfy the preconditions of C22
C22_InputsAreCoherent == MergeCalled => CoherentInputs

====
